---- MODULE Spec2Model ----
(***************************************************************************)
(* State-machine model of the learning-path service in                     *)
(* src/backend/server.js: the express handlers over the User,              *)
(* LearningPath and QuizResult collections, the passport session, the LLM  *)
(* gateway's reply handling, and the React component's request handlers.   *)
(*                                                                         *)
(* Scope: the handlers run against a reachable database and inside the     *)
(* rate limiter's window (server.js 39-44); a 429 from the limiter or a    *)
(* driver error is infrastructure and is not modelled.  Dates are ticks of *)
(* a logical clock.  Floating-point results are modelled exactly where the *)
(* IEEE-754 double result differs from the rational one (ScoreOf).         *)
(***************************************************************************)
EXTENDS Integers, Sequences, FiniteSets, TLC

\* ------------------------------------------------------------------ bounds
MaxPaths == 1
MaxLessons == 2
MaxClock == 3
MaxConcClock == 4
MaxTopicLen == 2
MaxReplyLen == 3
MaxQuestions == 2
MaxResults == 1
MaxInflight == 2
MaxPending == 2
LongQuizLen == 40

\* ------------------------------------------------------------- value sets
Users == {"u1", "u2"}
Sessions == {"s1", "s2"}
NoUser == "none"

\* JavaScript's undefined, where a number is expected
Undef == -1
\* JavaScript's NaN, where a number is expected
NaN == -2

NoBody == [kind |-> "none"]
NoArg == [kind |-> "none"]

\* ------------------------------------------------------------------ state
VARIABLES
  users,        \* User collection: the google ids that have a document
  session,      \* session store: session id -> serialized user, or NoUser
  loggedOut,    \* history: the session's last auth event was a successful logout
  paths,        \* LearningPath collection, in creation order (index = _id)
  quizResults,  \* QuizResult collection, in creation order
  clock,        \* logical time of the last new Date() / Date.now
  resp,         \* the last request handled and its response
  inflight,     \* complete-lesson handlers between findOne and save
  ui            \* the React component's state

vars == <<users, session, loggedOut, paths, quizResults, clock, resp, inflight, ui>>

\* ---------------------------------------------------------------- helpers
Rat(n, d) == [num |-> n, den |-> d]
RatEq(a, b) == a.num * b.den = b.num * a.den

Response(op, s, status, llm, arg, body) ==
  [op |-> op, sess |-> s, status |-> status, llm |-> llm, arg |-> arg, body |-> body]

\* Mutant of isAuthenticated: the guard lets every request through.
isAuthenticated_Open(s) == TRUE

\* req.isAuthenticated(): the session deserializes to a user
isAuthenticated(s) == session[s] # NoUser

InitUI ==
  [loading |-> FALSE, currentView |-> "dashboard", activePath |-> FALSE,
   currentLesson |-> [kind |-> "none"], quiz |-> FALSE, showResults |-> FALSE,
   newTopic |-> <<>>, pending |-> <<>>]

Init ==
  /\ users = {}
  /\ session = [s \in Sessions |-> NoUser]
  /\ loggedOut = [s \in Sessions |-> FALSE]
  /\ paths = <<>>
  /\ quizResults = <<>>
  /\ clock = 0
  /\ resp = Response("none", "s1", 0, 0, NoArg, NoBody)
  /\ inflight = <<>>
  /\ ui = InitUI

\* ------------------------------------------------------------ auth routes
\* GET /api/auth/google/callback: the strategy's verify callback finds or
\* creates the User, passport stores its id in the session.  A failed
\* authorization redirects to /login and leaves the session as it was.
Login(s, u, ok) ==
  /\ IF ok
       THEN /\ users' = users \cup {u}
            /\ session' = [session EXCEPT ![s] = u]
            /\ loggedOut' = [loggedOut EXCEPT ![s] = FALSE]
       ELSE UNCHANGED <<users, session, loggedOut>>
  /\ resp' = Response("login", s, 302, 0, [kind |-> "login", user |-> u, ok |-> ok], NoBody)
  /\ UNCHANGED <<paths, quizResults, clock, inflight, ui>>

\* GET /api/auth/user
GetUser(s) ==
  /\ resp' = IF isAuthenticated(s)
               THEN Response("getUser", s, 200, 0, NoArg, [kind |-> "user", id |-> session[s]])
               ELSE Response("getUser", s, 401, 0, NoArg, NoBody)
  /\ UNCHANGED <<users, session, loggedOut, paths, quizResults, clock, inflight, ui>>

\* Mutant of SessionAfterLogout: the login stays in the session.
SessionAfterLogout_Kept(s, outcome) == session

\* What req.logout leaves in the session store: the login is removed, unless
\* the store failed before the removal was saved.
SessionAfterLogout(s, outcome) ==
  IF outcome = "saveError" THEN session ELSE [session EXCEPT ![s] = NoUser]

\* POST /api/auth/logout (not guarded by isAuthenticated)
Logout(s, outcome) ==
  /\ session' = SessionAfterLogout(s, outcome)
  /\ loggedOut' = [loggedOut EXCEPT ![s] = IF outcome = "ok" THEN TRUE ELSE @]
  /\ resp' = Response("logout", s, IF outcome = "ok" THEN 200 ELSE 500, 0, NoArg, NoBody)
  /\ UNCHANGED <<users, paths, quizResults, clock, inflight, ui>>

LogoutOutcomes == {"ok", "saveError", "regenerateError"}

\* ------------------------------------------------------------ LLM gateway
\* A reply is free text, as a sequence of tokens: an opening brace, a closing
\* brace, and "j" for a stretch of text without top-level braces that, alone
\* between two braces, is well-formed as the members of a JSON object.
\* Outside the braces it is prose; two stretches in a row are not well-formed.
ReplyTokens == {"{", "}", "j"}

RECURSIVE SeqsUpTo(_, _)
SeqsUpTo(S, n) ==
  IF n = 0 THEN {<<>>}
  ELSE LET shorter == SeqsUpTo(S, n - 1)
       IN  shorter \cup {Append(q, x) : q \in {r \in shorter : Len(r) = n - 1}, x \in S}

Replies == SeqsUpTo(ReplyTokens, MaxReplyLen)

CallFailed == [kind |-> "callFailed"]

\* responseText.match(/\{[\s\S]*\}/): greedy, from the first opening brace to
\* the last closing brace after it; <<>> stands for null (no match).
JsonMatch(text) ==
  LET opens  == {i \in 1..Len(text) : text[i] = "{"}
      first  == CHOOSE i \in opens : \A j \in opens : i <= j
      closes == {i \in 1..Len(text) : text[i] = "}" /\ i > first}
      last   == CHOOSE i \in closes : \A j \in closes : j <= i
  IN  IF opens = {} THEN <<>>
      ELSE IF closes = {} THEN <<>>
      ELSE SubSeq(text, first, last)

\* JSON.parse(jsonMatch[0]) returns an object for "{}" and "{members}" and
\* throws a SyntaxError on anything else.
JsonParses(m) == m = <<"{", "}">> \/ m = <<"{", "j", "}">>

\* The parsed object has the reply's members only when there are any.
HasMembers(m) == m = <<"{", "j", "}">>

\* What the model returns for a generate-path prompt: the call fails, or it
\* replies `text`; when the text parses to an object with members, `title`
\* tells whether the object has a non-empty title and `lessons` is the length
\* of its lessons array (Undef: no lessons member).
PathReply(text, title, lessons) ==
  [kind |-> "reply", text |-> text, title |-> title, lessons |-> lessons]

PathReplies ==
  {PathReply(t, FALSE, Undef) : t \in {r \in Replies : ~HasMembers(JsonMatch(r))}}
  \cup {PathReply(t, ti, n) : t \in {r \in Replies : HasMembers(JsonMatch(r))},
                              ti \in BOOLEAN, n \in {Undef} \cup (0..MaxLessons)}

PathLLMOutcomes == {CallFailed} \cup PathReplies

\* ---------------------------------------------------------------- topics
Whitespace == {" "}
TopicChars == {" ", "a"}

Topic(kind, chars) == [kind |-> kind, chars |-> chars]

\* req.body.topic: absent (undefined or null), a string, or a truthy value
\* of another type
Topics ==
  {Topic("absent", <<>>), Topic("other", <<>>)}
  \cup {Topic("string", c) : c \in SeqsUpTo(TopicChars, MaxTopicLen)}

RECURSIVE TrimStart(_)
TrimStart(c) ==
  IF c # <<>> /\ Head(c) \in Whitespace THEN TrimStart(Tail(c)) ELSE c

RECURSIVE TrimEnd(_)
TrimEnd(c) ==
  IF c # <<>> /\ c[Len(c)] \in Whitespace THEN TrimEnd(SubSeq(c, 1, Len(c) - 1)) ELSE c

\* String.prototype.trim
trim(c) == TrimEnd(TrimStart(c))

\* Mutant of TopicRejected: the topic is not trimmed before the test.
TopicRejected_NoTrim(c) == c = <<>>

\* !topic || topic.trim().length === 0, for a string
TopicRejected(c) == c = <<>> \/ Len(trim(c)) = 0

\* The validation at server.js 238: "missing" answers 400, "throws" is the
\* TypeError of calling trim on a value that has none, "ok" goes on.
TopicCheck(topic) ==
  CASE topic.kind = "absent" -> "missing"
    [] topic.kind = "other"  -> "throws"
    [] OTHER -> IF TopicRejected(topic.chars) THEN "missing" ELSE "ok"

\* ------------------------------------------------- learning-path routes
\* An embedded lesson; title, content and completedAt are not modelled
Lesson(id) == [id |-> id, completed |-> FALSE, hasQuiz |-> TRUE]

\* pathData.lessons.map((lesson, idx) => ({id: idx + 1, ...}))
NumberedLessons(n) == [idx \in 1..n |-> Lesson(idx)]

NewPath(owner, n, now) ==
  [userId |-> owner, progress |-> Rat(0, 1), lessons |-> NumberedLessons(n),
   updatedAt |-> now]

\* Mutant of GenerateOutcome: a reply that does not parse is repaired into
\* a path without lessons instead of ending the request.
GenerateOutcome_Repair(llm) ==
  IF llm = CallFailed THEN "llmError"
  ELSE LET m == JsonMatch(llm.text)
       IN  IF m = <<>> THEN "noJson"
           ELSE IF ~JsonParses(m) THEN "created"
           ELSE IF ~HasMembers(m) \/ llm.lessons = Undef THEN "typeError"
           ELSE IF ~llm.title THEN "validationError"
           ELSE "created"

\* How the generate handler ends once the model has been called:
\* "created", or the reason it throws into the catch block.
GenerateOutcome(llm) ==
  IF llm = CallFailed THEN "llmError"
  ELSE LET m == JsonMatch(llm.text)
       IN  IF m = <<>> THEN "noJson"
           ELSE IF ~JsonParses(m) THEN "syntaxError"
           ELSE IF ~HasMembers(m) \/ llm.lessons = Undef THEN "typeError"
           ELSE IF ~llm.title THEN "validationError"
           ELSE "created"

\* What a handler saw of the model: no call, a failed call, or the reply text
NotCalled == <<"notCalled">>
ReplySeen(llm) == IF llm = CallFailed THEN <<"callFailed">> ELSE llm.text

GenArg(topic, reply) == [kind |-> "generate", topic |-> topic, reply |-> reply]

\* POST /api/learning-paths/generate
GeneratePath(s, topic, llm) ==
  LET check == TopicCheck(topic)
      out   == GenerateOutcome(llm)
      doc   == NewPath(session[s], llm.lessons, clock + 1)
  IN
  /\ UNCHANGED <<users, session, loggedOut, quizResults, inflight, ui>>
  /\ IF ~isAuthenticated(s) THEN
       /\ resp' = Response("generatePath", s, 401, 0, NoArg, NoBody)
       /\ UNCHANGED <<paths, clock>>
     ELSE IF check = "missing" THEN
       /\ resp' = Response("generatePath", s, 400, 0, GenArg(topic, NotCalled), NoBody)
       /\ UNCHANGED <<paths, clock>>
     ELSE IF check = "throws" THEN
       /\ resp' = Response("generatePath", s, 500, 0, GenArg(topic, NotCalled), NoBody)
       /\ UNCHANGED <<paths, clock>>
     ELSE IF out # "created" THEN
       /\ resp' = Response("generatePath", s, 500, 1, GenArg(topic, ReplySeen(llm)), NoBody)
       /\ UNCHANGED <<paths, clock>>
     ELSE
       /\ Len(paths) < MaxPaths
       /\ clock < MaxClock
       /\ paths' = Append(paths, doc)
       /\ clock' = clock + 1
       /\ resp' = Response("generatePath", s, 200, 1, GenArg(topic, ReplySeen(llm)),
                           [kind |-> "path", id |-> Len(paths) + 1, doc |-> doc])

\* One input of each class, for the specification of all the routes together
CoreTopics == {Topic("absent", <<>>), Topic("string", <<"a">>)}
CorePathLLMOutcomes ==
  {CallFailed} \cup {PathReply(<<"{", "j", "}">>, TRUE, n) : n \in 0..MaxLessons}

\* The requests of the generate specification: any topic with a core reply,
\* and a core topic with any reply
GenerateInputs == (Topics \X CorePathLLMOutcomes) \cup (CoreTopics \X PathLLMOutcomes)

\* Path ids a request may name: 0 is a malformed ObjectId, the others are
\* well-formed and may or may not be in the collection.
InvalidId == 0
PathIds == 0..MaxPaths

\* Mutant of FindOwned: the query filters by _id alone.
FindOwned_AnyOwner(pid, owner) == IF pid \in 1..Len(paths) THEN pid ELSE 0

\* LearningPath.findOne({_id, userId}): the index of the document, 0 if none
FindOwned(pid, owner) ==
  IF pid \in 1..Len(paths) /\ paths[pid].userId = owner THEN pid ELSE 0

\* LearningPath.find({userId}).sort({createdAt: -1})
RECURSIVE OwnedNewestFirst(_, _)
OwnedNewestFirst(owner, i) ==
  IF i = 0 THEN <<>>
  ELSE IF paths[i].userId = owner
       THEN <<[id |-> i, doc |-> paths[i]]>> \o OwnedNewestFirst(owner, i - 1)
       ELSE OwnedNewestFirst(owner, i - 1)

\* GET /api/learning-paths
ListPaths(s) ==
  /\ resp' = IF isAuthenticated(s)
               THEN Response("listPaths", s, 200, 0, NoArg,
                             [kind |-> "paths", docs |-> OwnedNewestFirst(session[s], Len(paths))])
               ELSE Response("listPaths", s, 401, 0, NoArg, NoBody)
  /\ UNCHANGED <<users, session, loggedOut, paths, quizResults, clock, inflight, ui>>

PathArg(pid, lid) == [kind |-> "path", pathId |-> pid, lessonId |-> lid]

\* GET /api/learning-paths/:id
GetPath(s, pid) ==
  LET found == FindOwned(pid, session[s]) IN
  /\ resp' = IF ~isAuthenticated(s)
               THEN Response("getPath", s, 401, 0, NoArg, NoBody)
             ELSE IF pid = InvalidId
               THEN Response("getPath", s, 500, 0, PathArg(pid, Undef), NoBody)
             ELSE IF found = 0
               THEN Response("getPath", s, 404, 0, PathArg(pid, Undef), NoBody)
             ELSE Response("getPath", s, 200, 0, PathArg(pid, Undef),
                           [kind |-> "path", id |-> found, doc |-> paths[found]])
  /\ UNCHANGED <<users, session, loggedOut, paths, quizResults, clock, inflight, ui>>

\* path.lessons.find(l => l.id === parseInt(req.params.lessonId)): the index
\* of the lesson, 0 if none (parseInt of a non-number is NaN and matches none)
FindLesson(lessons, lid) ==
  IF \E i \in 1..Len(lessons) : lessons[i].id = lid
    THEN CHOOSE i \in 1..Len(lessons) :
           lessons[i].id = lid /\ \A j \in 1..(i - 1) : lessons[j].id # lid
    ELSE 0

\* path.lessons.filter(l => l.completed).length
CompletedCount(lessons) == Cardinality({i \in 1..Len(lessons) : lessons[i].completed})

\* Mutant of WithLessonCompleted: progress is computed before the lesson is
\* flagged.
WithLessonCompleted_Stale(doc, i, now) ==
  [doc EXCEPT !.lessons = [doc.lessons EXCEPT ![i].completed = TRUE],
              !.progress = Rat(CompletedCount(doc.lessons) * 100, Len(doc.lessons)),
              !.updatedAt = now]

\* The document as the handler holds it before save (server.js 347-353)
WithLessonCompleted(doc, i, now) ==
  LET lessons == [doc.lessons EXCEPT ![i].completed = TRUE]
  IN  [doc EXCEPT !.lessons = lessons,
                  !.progress = Rat(CompletedCount(lessons) * 100, Len(lessons)),
                  !.updatedAt = now]

\* path.save(): mongoose writes the fields the handler modified, and only
\* those, to the stored document in one atomic update.  An assignment of the
\* value the document was loaded with does not mark the field modified;
\* updatedAt, a new Date, always is.
ApplySave(stored, loaded, doc, i) ==
  [stored EXCEPT !.lessons[i].completed =
                    IF doc.lessons[i].completed # loaded.lessons[i].completed
                      THEN doc.lessons[i].completed ELSE @,
                 !.progress = IF RatEq(doc.progress, loaded.progress) THEN @ ELSE doc.progress,
                 !.updatedAt = doc.updatedAt]

\* Lesson ids a request may name: NaN for a non-numeric parameter
LessonIds == {NaN} \cup (1..(MaxLessons + 1))

\* PATCH /api/learning-paths/:id/lessons/:lessonId/complete, run to the end
\* before any other request is handled
CompleteLesson(s, pid, lid) ==
  LET found == FindOwned(pid, session[s])
      i     == FindLesson(paths[found].lessons, lid)
      doc   == WithLessonCompleted(paths[found], i, clock + 1)
  IN
  /\ UNCHANGED <<users, session, loggedOut, quizResults, inflight, ui>>
  /\ IF ~isAuthenticated(s) THEN
       /\ resp' = Response("completeLesson", s, 401, 0, NoArg, NoBody)
       /\ UNCHANGED <<paths, clock>>
     ELSE IF pid = InvalidId THEN
       /\ resp' = Response("completeLesson", s, 500, 0, PathArg(pid, lid), NoBody)
       /\ UNCHANGED <<paths, clock>>
     ELSE IF found = 0 \/ i = 0 THEN
       /\ resp' = Response("completeLesson", s, 404, 0, PathArg(pid, lid), NoBody)
       /\ UNCHANGED <<paths, clock>>
     ELSE
       /\ clock < MaxClock
       /\ paths' = [paths EXCEPT ![found] = ApplySave(@, paths[found], doc, i)]
       /\ clock' = clock + 1
       /\ resp' = Response("completeLesson", s, 200, 0, PathArg(pid, lid),
                           [kind |-> "path", id |-> found, doc |-> doc])

\* The same handler as two steps, so that other handlers run between its
\* findOne and its save.  First step: up to the await of path.save().
CompleteBegin(s, pid, lid) ==
  LET found == FindOwned(pid, session[s])
      i     == FindLesson(paths[found].lessons, lid)
      doc   == WithLessonCompleted(paths[found], i, clock + 1)
  IN
  /\ UNCHANGED <<users, session, loggedOut, paths, quizResults, ui>>
  /\ IF ~isAuthenticated(s) THEN
       /\ resp' = Response("completeLesson", s, 401, 0, NoArg, NoBody)
       /\ UNCHANGED <<clock, inflight>>
     ELSE IF pid = InvalidId THEN
       /\ resp' = Response("completeLesson", s, 500, 0, PathArg(pid, lid), NoBody)
       /\ UNCHANGED <<clock, inflight>>
     ELSE IF found = 0 \/ i = 0 THEN
       /\ resp' = Response("completeLesson", s, 404, 0, PathArg(pid, lid), NoBody)
       /\ UNCHANGED <<clock, inflight>>
     ELSE
       /\ clock < MaxConcClock
       /\ Len(inflight) < MaxInflight
       /\ clock' = clock + 1
       /\ inflight' = Append(inflight, [sess |-> s, arg |-> PathArg(pid, lid), id |-> found,
                                        lesson |-> i, loaded |-> paths[found], doc |-> doc])
       /\ UNCHANGED resp

RemoveAt(q, k) == SubSeq(q, 1, k - 1) \o SubSeq(q, k + 1, Len(q))

\* Second step: the save completes and the handler answers with its document.
CompleteSave(k) ==
  LET h == inflight[k] IN
  /\ k \in 1..Len(inflight)
  /\ paths' = [paths EXCEPT ![h.id] = ApplySave(@, h.loaded, h.doc, h.lesson)]
  /\ inflight' = RemoveAt(inflight, k)
  /\ resp' = Response("completeLesson", h.sess, 200, 0, h.arg,
                      [kind |-> "path", id |-> h.id, doc |-> h.doc])
  /\ UNCHANGED <<users, session, loggedOut, quizResults, clock, ui>>

\* ------------------------------------------------------------ quiz routes
\* What the model returns for a generate-quiz prompt; `questions` is the
\* length of the parsed object's questions array (Undef: no such member).
QuizReply(text, questions) == [kind |-> "reply", text |-> text, questions |-> questions]

CoreQuizLLMOutcomes ==
  {CallFailed} \cup {QuizReply(<<"{", "j", "}">>, n) : n \in {Undef, MaxQuestions}}

GenerateQuizOutcome(llm) ==
  IF llm = CallFailed THEN "llmError"
  ELSE LET m == JsonMatch(llm.text)
       IN  IF m = <<>> THEN "noJson"
           ELSE IF ~JsonParses(m) THEN "syntaxError"
           ELSE IF ~HasMembers(m) \/ llm.questions = Undef THEN "noQuestions"
           ELSE "ok"

QuizGenArg(present, reply) == [kind |-> "generateQuiz", present |-> present, reply |-> reply]

\* POST /api/quizzes/generate; `present`: pathId, lessonId, lessonTitle and
\* lessonContent are all there.  Nothing is stored.
GenerateQuiz(s, present, llm) ==
  /\ resp' =
       IF ~isAuthenticated(s)
         THEN Response("generateQuiz", s, 401, 0, NoArg, NoBody)
       ELSE IF ~present
         THEN Response("generateQuiz", s, 400, 0, QuizGenArg(present, NotCalled), NoBody)
       ELSE IF GenerateQuizOutcome(llm) # "ok"
         THEN Response("generateQuiz", s, 500, 1, QuizGenArg(present, ReplySeen(llm)), NoBody)
       ELSE Response("generateQuiz", s, 200, 1, QuizGenArg(present, ReplySeen(llm)),
                     [kind |-> "quiz", questions |-> [idx \in 1..llm.questions |-> [id |-> idx]]])
  /\ UNCHANGED <<users, session, loggedOut, paths, quizResults, clock, inflight, ui>>

\* A list-valued body field: absent, or an array
Absent == [kind |-> "absent", vals |-> <<>>]
List(vals) == [kind |-> "list", vals |-> vals]

\* answers[idx] (0-based idx): undefined past the end of the array
AnswerAt(answers, idx) == IF idx + 1 <= Len(answers) THEN answers[idx + 1] ELSE Undef

\* questions.forEach((q, idx) => { if (answers[idx] === q.correct) correctCount++ })
CorrectCount(answers, correct) ==
  Cardinality({idx \in 0..(Len(correct) - 1) : AnswerAt(answers, idx) = correct[idx + 1]})

\* The quotients c/n whose double, multiplied by 100, falls just below a
\* half that the rational 100c/n reaches exactly (57.49999999999999 for
\* 23/40): these are all of them, for any n.
FloatBelowHalf(c, n) ==
  \/ 40 * c = 23 * n
  \/ 200 * c = 29 * n
  \/ 200 * c = 57 * n
  \/ 200 * c = 113 * n

\* Math.round((c / n) * 100) in double arithmetic, n > 0
RoundPercent(c, n) ==
  LET halfUp == (200 * c + n) \div (2 * n)
  IN  IF FloatBelowHalf(c, n) THEN halfUp - 1 ELSE halfUp

\* Math.round((correctCount / questions.length) * 100): 0 / 0 is NaN
ScoreOf(c, n) == IF n = 0 THEN NaN ELSE RoundPercent(c, n)

\* Mutant of ResultIsValid: the score is stored without the Number cast.
ResultIsValid_NoCast(pathId, score) == pathId # InvalidId

\* QuizResult.create casts score to Number and pathId to ObjectId; a NaN
\* score or a malformed id fails validation and nothing is stored.
ResultIsValid(pathId, score) == score # NaN /\ pathId # InvalidId

SubmitArg(pathId, lessonId, answers, questions) ==
  [kind |-> "submit", pathId |-> pathId, lessonId |-> lessonId,
   answers |-> answers, questions |-> questions]

\* POST /api/quizzes/submit; `questions.vals` holds each question's correct index
SubmitQuiz(s, pathId, lessonId, answers, questions) ==
  LET arg   == SubmitArg(pathId, lessonId, answers, questions)
      c     == CorrectCount(answers.vals, questions.vals)
      n     == Len(questions.vals)
      score == ScoreOf(c, n)
      doc   == [userId |-> session[s], pathId |-> pathId, lessonId |-> lessonId,
                score |-> score, answers |-> answers.vals]
  IN
  /\ UNCHANGED <<users, session, loggedOut, paths, clock, inflight, ui>>
  /\ IF ~isAuthenticated(s) THEN
       /\ resp' = Response("submitQuiz", s, 401, 0, NoArg, NoBody)
       /\ UNCHANGED quizResults
     ELSE IF pathId = Undef \/ lessonId = Undef \/ lessonId = 0
             \/ answers = Absent \/ questions = Absent THEN
       /\ resp' = Response("submitQuiz", s, 400, 0, arg, NoBody)
       /\ UNCHANGED quizResults
     ELSE IF ~ResultIsValid(pathId, score) THEN
       /\ resp' = Response("submitQuiz", s, 500, 0, arg, NoBody)
       /\ UNCHANGED quizResults
     ELSE
       /\ Len(quizResults) < MaxResults
       /\ quizResults' = Append(quizResults, doc)
       /\ resp' = Response("submitQuiz", s, 200, 0, arg,
                           [kind |-> "score", score |-> score, correctCount |-> c,
                            totalQuestions |-> n, resultId |-> Len(quizResults) + 1])

\* Option indices an answer or a question's correct field may hold
OptionIndices == 0..1

\* Short submissions: every position is answered 0 or not answered, and the
\* question's correct index is 0, 1 or missing, so that each way a position
\* can match or differ occurs
SmallAnswers == {Absent} \cup {List(a) : a \in SeqsUpTo({0}, MaxQuestions)}
SmallQuestions == {Absent} \cup {List(q) : q \in SeqsUpTo(OptionIndices \cup {Undef}, MaxQuestions)}

\* A long quiz: n questions whose correct index is 0, answered 0 at the
\* first c positions and 1 at the others
LongAnswers(n, c) == List([i \in 1..n |-> IF i <= c THEN 0 ELSE 1])
LongQuestions(n) == List([i \in 1..n |-> 0])

\* The submissions of the quiz specification: any short answers against any
\* short questions, and a missing or malformed id
QuizSubmits ==
  {<<1, 1, a, q>> : a \in SmallAnswers, q \in SmallQuestions}
  \cup {<<Undef, 1, List(<<0>>), List(<<0>>)>>, <<1, Undef, List(<<0>>), List(<<0>>)>>,
         <<1, 0, List(<<0>>), List(<<0>>)>>, <<InvalidId, 1, List(<<0>>), List(<<0>>)>>}

\* The long quiz with c right answers, for every c
LongQuizSubmits ==
  {<<1, 1, LongAnswers(LongQuizLen, c), LongQuestions(LongQuizLen)>> : c \in 0..LongQuizLen}

\* One submission of each class: a field missing, no questions, a right
\* answer
CoreSubmits ==
  {<<1, 1, Absent, List(<<0>>)>>, <<1, 1, List(<<>>), List(<<>>)>>,
   <<1, 1, List(<<0>>), List(<<0>>)>>}

HistoryLimit == 20

\* QuizResult.find({userId}).sort({completedAt: -1}).limit(20)
RECURSIVE ResultsNewestFirst(_, _)
ResultsNewestFirst(owner, i) ==
  IF i = 0 THEN <<>>
  ELSE IF quizResults[i].userId = owner
       THEN <<quizResults[i]>> \o ResultsNewestFirst(owner, i - 1)
       ELSE ResultsNewestFirst(owner, i - 1)

FirstN(q, n) == SubSeq(q, 1, IF Len(q) < n THEN Len(q) ELSE n)

\* GET /api/quizzes/history
QuizHistory(s) ==
  /\ resp' = IF isAuthenticated(s)
               THEN Response("quizHistory", s, 200, 0, NoArg,
                             [kind |-> "results",
                              docs |-> FirstN(ResultsNewestFirst(session[s], Len(quizResults)),
                                              HistoryLimit)])
               ELSE Response("quizHistory", s, 401, 0, NoArg, NoBody)
  /\ UNCHANGED <<users, session, loggedOut, paths, quizResults, clock, inflight, ui>>

\* ------------------------------------------------------------------ stats
\* reduce((acc, x) => acc + x, 0) over a sequence of numbers
RECURSIVE Sum(_)
Sum(q) == IF q = <<>> THEN 0 ELSE Head(q) + Sum(Tail(q))

\* Math.round(a / b) for a >= 0, b > 0
RoundDiv(a, b) == (2 * a + b) \div (2 * b)

\* GET /api/stats
Stats(s) ==
  LET mine      == OwnedNewestFirst(session[s], Len(paths))
      results   == ResultsNewestFirst(session[s], Len(quizResults))
      completed == Sum([i \in 1..Len(mine) |-> CompletedCount(mine[i].doc.lessons)])
      total     == Sum([i \in 1..Len(mine) |-> Len(mine[i].doc.lessons)])
      scores    == Sum([i \in 1..Len(results) |-> results[i].score])
  IN
  /\ resp' = IF ~isAuthenticated(s)
               THEN Response("stats", s, 401, 0, NoArg, NoBody)
               ELSE Response("stats", s, 200, 0, NoArg,
                      [kind |-> "stats", totalPaths |-> Len(mine),
                       completedLessons |-> completed, totalLessons |-> total,
                       overallProgress |-> IF total > 0 THEN RoundPercent(completed, total) ELSE 0,
                       averageQuizScore |->
                         IF Len(results) > 0
                           THEN RoundDiv(scores, Len(results))
                           ELSE 0,
                       totalQuizzes |-> Len(results)])
  /\ UNCHANGED <<users, session, loggedOut, paths, quizResults, clock, inflight, ui>>

\* GET /api/health (no isAuthenticated in its route)
Health(s, connected) ==
  /\ resp' = Response("health", s, 200, 0, NoArg,
                      [kind |-> "health", status |-> "ok",
                       mongodb |-> IF connected THEN "connected" ELSE "disconnected"])
  /\ UNCHANGED <<users, session, loggedOut, paths, quizResults, clock, inflight, ui>>

\* -------------------------------------------------- frontend component
\* SmartLearningApp's state is the record ui; pending holds the axios calls
\* that have been issued and have neither resolved nor failed.
Call(kind, hasQuiz) == [kind |-> kind, hasQuiz |-> hasQuiz]

\* The calls that drive a view transition
TransitionCalls == {"generatePath", "completeLesson", "generateQuiz", "submitQuiz"}

\* The topic input's onChange (setNewTopic)
SetNewTopic(c) ==
  /\ ui' = [ui EXCEPT !.newTopic = c]
  /\ UNCHANGED <<users, session, loggedOut, paths, quizResults, clock, resp, inflight>>

\* Opening a lesson of a path (setActivePath, setCurrentLesson, setCurrentView);
\* every lesson the server stores has hasQuiz = true
SelectLesson ==
  /\ ui' = [ui EXCEPT !.activePath = TRUE,
                      !.currentLesson = [kind |-> "lesson", hasQuiz |-> TRUE],
                      !.currentView = "path"]
  /\ UNCHANGED <<users, session, loggedOut, paths, quizResults, clock, resp, inflight>>

\* generateLearningPath up to its await
generateLearningPath ==
  /\ Len(trim(ui.newTopic)) # 0
  /\ Len(ui.pending) < MaxPending
  /\ ui' = [ui EXCEPT !.loading = TRUE,
                      !.pending = Append(@, Call("generatePath", FALSE))]
  /\ UNCHANGED <<users, session, loggedOut, paths, quizResults, clock, resp, inflight>>

\* generateLearningPath from its await on: try or catch, then finally
generateLearningPathDone(k, ok) ==
  /\ k \in 1..Len(ui.pending)
  /\ ui.pending[k].kind = "generatePath"
  /\ ui' = [ui EXCEPT !.pending = RemoveAt(@, k),
                      !.newTopic = IF ok THEN <<>> ELSE @,
                      !.loading = FALSE]
  /\ UNCHANGED <<users, session, loggedOut, paths, quizResults, clock, resp, inflight>>

\* completeLesson up to its await; without an active path and lesson the
\* handler throws before the call and only alerts
completeLesson ==
  /\ ui.activePath
  /\ ui.currentLesson.kind = "lesson"
  /\ Len(ui.pending) < MaxPending
  /\ ui' = [ui EXCEPT !.pending = Append(@, Call("completeLesson", ui.currentLesson.hasQuiz))]
  /\ UNCHANGED <<users, session, loggedOut, paths, quizResults, clock, resp, inflight>>

\* completeLesson from its await on; with a quiz flag it calls generateQuiz,
\* which runs up to its own await
completeLessonDone(k, ok) ==
  /\ k \in 1..Len(ui.pending)
  /\ ui.pending[k].kind = "completeLesson"
  /\ ui' = IF ~ok THEN [ui EXCEPT !.pending = RemoveAt(@, k)]
           ELSE IF ui.pending[k].hasQuiz
             THEN [ui EXCEPT !.pending = Append(RemoveAt(@, k), Call("generateQuiz", TRUE)),
                             !.loading = TRUE]
           ELSE [ui EXCEPT !.pending = RemoveAt(@, k), !.currentView = "path"]
  /\ UNCHANGED <<users, session, loggedOut, paths, quizResults, clock, resp, inflight>>

\* generateQuiz from its await on
generateQuizDone(k, ok) ==
  /\ k \in 1..Len(ui.pending)
  /\ ui.pending[k].kind = "generateQuiz"
  /\ ui' = IF ok
             THEN [ui EXCEPT !.pending = RemoveAt(@, k), !.quiz = TRUE,
                             !.showResults = FALSE, !.currentView = "quiz",
                             !.loading = FALSE]
             ELSE [ui EXCEPT !.pending = RemoveAt(@, k), !.loading = FALSE]
  /\ UNCHANGED <<users, session, loggedOut, paths, quizResults, clock, resp, inflight>>

\* submitQuiz up to its await; it needs a quiz, an active path and a lesson
submitQuiz ==
  /\ ui.quiz
  /\ ui.activePath
  /\ ui.currentLesson.kind = "lesson"
  /\ Len(ui.pending) < MaxPending
  /\ ui' = [ui EXCEPT !.pending = Append(@, Call("submitQuiz", FALSE))]
  /\ UNCHANGED <<users, session, loggedOut, paths, quizResults, clock, resp, inflight>>

\* submitQuiz from its await on
submitQuizDone(k, ok) ==
  /\ k \in 1..Len(ui.pending)
  /\ ui.pending[k].kind = "submitQuiz"
  /\ ui' = [ui EXCEPT !.pending = RemoveAt(@, k),
                      !.showResults = IF ok THEN TRUE ELSE @]
  /\ UNCHANGED <<users, session, loggedOut, paths, quizResults, clock, resp, inflight>>

\* --------------------------------------------------------- specifications
AuthStep(S) ==
  \/ \E s \in S, u \in Users, ok \in BOOLEAN : Login(s, u, ok)
  \/ \E s \in S : GetUser(s)
  \/ \E s \in S, o \in LogoutOutcomes : Logout(s, o)

PathStep(S) ==
  \/ \E s \in S, topic \in CoreTopics, llm \in CorePathLLMOutcomes :
       GeneratePath(s, topic, llm)
  \/ \E s \in S : ListPaths(s)
  \/ \E s \in S, pid \in PathIds : GetPath(s, pid)
  \/ \E s \in S, pid \in PathIds, lid \in LessonIds : CompleteLesson(s, pid, lid)

\* The learning-path routes with one request of each class: a missing topic,
\* a failed call, a reply with one lesson; a malformed, absent or stored path
\* id; a lesson id that is stored or not
PathProbeStep(S) ==
  \/ \E s \in S, topic \in CoreTopics, llm \in {CallFailed, PathReply(<<"{", "j", "}">>, TRUE, 1)} :
       GeneratePath(s, topic, llm)
  \/ \E s \in S : ListPaths(s)
  \/ \E s \in S, pid \in PathIds : GetPath(s, pid)
  \/ \E s \in S, pid \in PathIds, lid \in 1..2 : CompleteLesson(s, pid, lid)

QuizStep(S) ==
  \/ \E s \in S, present \in BOOLEAN, llm \in CoreQuizLLMOutcomes :
       GenerateQuiz(s, present, llm)
  \/ \E s \in S, r \in CoreSubmits : SubmitQuiz(s, r[1], r[2], r[3], r[4])
  \/ \E s \in S : QuizHistory(s)

OtherStep(S) ==
  \/ \E s \in S : Stats(s)
  \/ \E s \in S, connected \in BOOLEAN : Health(s, connected)

\* Every route of the API, one request at a time, from two client sessions
Next == AuthStep(Sessions) \/ PathProbeStep(Sessions) \/ QuizStep(Sessions) \/ OtherStep(Sessions)

Spec == Init /\ [][Next]_vars

\* One client session, used by the users in turn
OneSession == {"s1"}

\* The session and the learning-path routes, one request at a time
NextPaths == AuthStep(OneSession) \/ PathStep(OneSession)

SpecPaths == Init /\ [][NextPaths]_vars

LoginStep == \E s \in OneSession, u \in Users, ok \in BOOLEAN : Login(s, u, ok)

\* The generate-path route over every topic and every reply of the model
NextGenerate ==
  \/ LoginStep
  \/ \E s \in OneSession, in \in GenerateInputs : GeneratePath(s, in[1], in[2])

SpecGenerate == Init /\ [][NextGenerate]_vars

\* The quiz submission route over every short submission
NextQuiz ==
  \/ \E s \in OneSession, ok \in BOOLEAN : Login(s, "u1", ok)
  \/ \E s \in OneSession, r \in QuizSubmits : SubmitQuiz(s, r[1], r[2], r[3], r[4])
  \/ \E s \in OneSession : QuizHistory(s)

SpecQuiz == Init /\ [][NextQuiz]_vars

\* The quiz submission route on a quiz of LongQuizLen questions
NextLongQuiz ==
  \/ LoginStep
  \/ \E s \in OneSession, r \in LongQuizSubmits : SubmitQuiz(s, r[1], r[2], r[3], r[4])
  \/ \E s \in OneSession : QuizHistory(s)

SpecLongQuiz == Init /\ [][NextLongQuiz]_vars

\* Complete-lesson handlers that interleave between findOne and save
NextConc ==
  \/ LoginStep
  \/ \E s \in OneSession, topic \in CoreTopics, llm \in CorePathLLMOutcomes :
       GeneratePath(s, topic, llm)
  \/ \E s \in OneSession, pid \in PathIds, lid \in LessonIds : CompleteBegin(s, pid, lid)
  \/ \E k \in 1..MaxInflight : CompleteSave(k)

SpecConc == Init /\ [][NextConc]_vars

\* The component's handlers, with every call resolving or failing
NextUI ==
  \/ \E c \in SeqsUpTo(TopicChars, MaxTopicLen) : SetNewTopic(c)
  \/ SelectLesson
  \/ generateLearningPath
  \/ \E k \in 1..MaxPending, ok \in BOOLEAN : generateLearningPathDone(k, ok)
  \/ completeLesson
  \/ \E k \in 1..MaxPending, ok \in BOOLEAN : completeLessonDone(k, ok)
  \/ \E k \in 1..MaxPending, ok \in BOOLEAN : generateQuizDone(k, ok)
  \/ submitQuiz
  \/ \E k \in 1..MaxPending, ok \in BOOLEAN : submitQuizDone(k, ok)

SpecUI == Init /\ [][NextUI]_vars
\* ------------------------------------------------------------------ claims
\* Number of lessons of a path flagged completed
DoneLessons(p) == Cardinality({i \in DOMAIN p.lessons : p.lessons[i].completed = TRUE})

\* progress = 100 * done / total as rationals; a path without lessons, for
\* which the quotient is undefined, has progress 0
ProgressMatches(p) ==
  IF Len(p.lessons) = 0 THEN p.progress.num = 0
  ELSE p.progress.num * Len(p.lessons) = 100 * DoneLessons(p) * p.progress.den

\* C1: with requests handled one at a time, every stored path's progress is
\* 100 * (completed lessons) / (lessons), and a path just created has
\* progress 0.
C1_ProgressDerivable ==
  /\ \A i \in 1..Len(paths) : ProgressMatches(paths[i])
  /\ (resp.op = "generatePath" /\ resp.status = 200) => resp.body.doc.progress.num = 0

\* C1 witness: one of the two lessons of a path is completed, progress is 50.
C1_Witness ==
  \E i \in 1..Len(paths) :
    /\ Len(paths[i].lessons) = 2
    /\ DoneLessons(paths[i]) = 1
    /\ RatEq(paths[i].progress, Rat(50, 1))

\* The step is a get-path or complete-lesson request by a logged-in user for
\* a stored path that another user owns.
ForeignPathRequest ==
  /\ resp'.op \in {"getPath", "completeLesson"}
  /\ resp'.arg.kind = "path"
  /\ session[resp'.sess] # NoUser
  /\ resp'.arg.pathId \in 1..Len(paths)
  /\ paths[resp'.arg.pathId].userId # session[resp'.sess]

\* C2: a get-path or complete-lesson request for a path of another user
\* answers 404 with no path data and leaves the stored paths as they were.
C2_ForeignPath404 ==
  [][ForeignPathRequest =>
        /\ resp'.status = 404
        /\ resp'.body = NoBody
        /\ paths' = paths]_vars

\* C2 witness: a logged-in user has asked to complete an existing lesson of
\* another user's path and got 404.
C2_Witness ==
  /\ resp.op = "completeLesson"
  /\ resp.status = 404
  /\ resp.arg.kind = "path"
  /\ resp.arg.pathId \in 1..Len(paths)
  /\ session[resp.sess] # NoUser
  /\ paths[resp.arg.pathId].userId # session[resp.sess]
  /\ resp.arg.lessonId \in 1..Len(paths[resp.arg.pathId].lessons)
  /\ ~paths[resp.arg.pathId].lessons[resp.arg.lessonId].completed

\* The routes behind isAuthenticated
GuardedOps ==
  {"getUser", "generatePath", "listPaths", "getPath", "completeLesson",
   "generateQuiz", "submitQuiz", "quizHistory", "stats"}

\* C3: once a logout has succeeded on a session and until a login completes
\* on it, every request of the session to a guarded route answers 401.
C3_LoggedOutIs401 ==
  (resp.op \in GuardedOps /\ loggedOut[resp.sess]) => resp.status = 401

\* C3 witness: a guarded request is refused on a logged-out session while
\* the other session is logged in.
C3_Witness ==
  /\ resp.op = "stats"
  /\ loggedOut[resp.sess]
  /\ resp.status = 401
  /\ \E s \in Sessions : s # resp.sess /\ session[s] # NoUser

\* The routes that are not auth routes
NonAuthOps ==
  {"generatePath", "listPaths", "getPath", "completeLesson",
   "generateQuiz", "submitQuiz", "quizHistory", "stats", "health"}

NoLLMNoWrite ==
  /\ resp'.llm = 0
  /\ UNCHANGED <<users, paths, quizResults>>

\* C4 as claimed: every route other than the auth routes answers 401 to a
\* request without an authenticated session, calls no LLM and writes nothing.
C4_AllNonAuthNeedSession ==
  [][(resp'.op \in NonAuthOps /\ session[resp'.sess] = NoUser) =>
        (resp'.status = 401 /\ NoLLMNoWrite)]_vars

\* C4 amended: every route other than the auth routes and the health probe
\* answers 401 to a request without an authenticated session; the health
\* probe answers 200; none of them calls the LLM or writes a document.
C4_GuardedNeedSession ==
  [][(resp'.op \in NonAuthOps /\ session[resp'.sess] = NoUser) =>
        /\ resp'.status = IF resp'.op = "health" THEN 200 ELSE 401
        /\ NoLLMNoWrite]_vars

\* C4 witness: a generate-path request without a login has been refused
\* while paths exist.
C4_Witness ==
  /\ resp.op = "generatePath"
  /\ session[resp.sess] = NoUser
  /\ resp.status = 401
  /\ Len(paths) > 0

\* The topic is absent, empty or made of whitespace only
BlankTopic(topic) ==
  \/ topic.kind = "absent"
  \/ topic.kind = "string" /\ \A i \in 1..Len(topic.chars) : topic.chars[i] = " "

\* C5: a generate-path request of a logged-in user with an absent, empty or
\* whitespace-only topic answers 400, calls no LLM and stores no path.
C5_BlankTopic400 ==
  [][(/\ resp'.op = "generatePath"
      /\ session[resp'.sess] # NoUser
      /\ resp'.arg.kind = "generate"
      /\ BlankTopic(resp'.arg.topic)) =>
        /\ resp'.status = 400
        /\ resp'.llm = 0
        /\ paths' = paths]_vars

\* C5 witness: a whitespace-only topic has been refused with 400.
C5_Witness ==
  /\ resp.op = "generatePath"
  /\ resp.arg.kind = "generate"
  /\ resp.arg.topic = Topic("string", <<" ", " ">>)
  /\ resp.status = 400
  /\ resp.llm = 0

\* Positions at which the answer equals the question's correct index
Matches(answers, correct) ==
  {i \in 1..Len(correct) : (IF i <= Len(answers) THEN answers[i] ELSE Undef) = correct[i]}

\* round(100 * c / n), halves up
RoundedPercent(c, n) == (200 * c + n) \div (2 * n)

\* C6: the score returned and stored for an accepted submission is
\* round(100 * correctCount / questionCount), counted by position.
C6_ScoreIsRounded ==
  (resp.op = "submitQuiz" /\ resp.status = 200) =>
    LET n == Len(resp.arg.questions.vals)
        c == Cardinality(Matches(resp.arg.answers.vals, resp.arg.questions.vals))
    IN  /\ resp.body.score = RoundedPercent(c, n)
        /\ quizResults[resp.body.resultId].score = RoundedPercent(c, n)

\* C7: every stored quiz result has an integer score from 0 to 100, whatever
\* answers and questions were submitted.
C7_ScoreInRange ==
  \A i \in 1..Len(quizResults) : quizResults[i].score \in 0..100

\* C7 witness: a result with score 50 is stored and a submission with an
\* empty questions list has just been handled.
C7_Witness ==
  /\ Len(quizResults) = 1
  /\ quizResults[1].score = 50
  /\ resp.op = "submitQuiz"
  /\ resp.arg.kind = "submit"
  /\ resp.arg.questions = List(<<>>)
  /\ resp.arg.answers # Absent

\* The reply holds no opening brace followed by a closing brace
NoJsonObject(reply) ==
  ~\E i, j \in 1..Len(reply) : i < j /\ reply[i] = "{" /\ reply[j] = "}"

\* The call failed, the reply holds no JSON object, or what is extracted
\* from it does not parse
BadReply(reply) ==
  \/ reply = <<"callFailed">>
  \/ NoJsonObject(reply)
  \/ ~JsonParses(JsonMatch(reply))

\* C8: when the LLM call fails, or its reply holds no JSON object or one
\* that does not parse, the request answers 500 after one LLM call and no
\* path is stored.
C8_BadReplyIs500 ==
  [][(/\ resp'.op = "generatePath"
      /\ resp'.arg.kind = "generate"
      /\ resp'.arg.reply # NotCalled
      /\ BadReply(resp'.arg.reply)) =>
        /\ resp'.status = 500
        /\ resp'.llm = 1
        /\ paths' = paths]_vars

\* C8 witness: a reply whose braces enclose no well-formed object ended the
\* request with 500.
C8_Witness ==
  /\ resp.op = "generatePath"
  /\ resp.arg.kind = "generate"
  /\ resp.arg.reply = <<"{", "{", "}">>
  /\ resp.status = 500
  /\ resp.llm = 1

\* C9: once interleaved complete-lesson handlers have all finished, the
\* lesson each one answered for is completed and every path's progress is
\* 100 * (completed lessons) / (lessons).
C9_InterleavedProgress ==
  inflight = <<>> =>
    /\ \A i \in 1..Len(paths) : ProgressMatches(paths[i])
    /\ (resp.op = "completeLesson" /\ resp.status = 200) =>
         paths[resp.body.id].lessons[resp.arg.lessonId].completed

\* C10: while a transition-driving call is in flight, loading is true.
C10_LoadingWhileInFlight ==
  (\E k \in 1..Len(ui.pending) : ui.pending[k].kind \in TransitionCalls) => ui.loading

\* a <= b for rationals with positive denominators
RatLeq(a, b) == a.num * b.den <= b.num * a.den

\* The ids of a path's lessons, in order
LessonIdsOf(p) == [j \in 1..Len(p.lessons) |-> p.lessons[j].id]

\* The completed flags of a path's lessons, in order
FlagsOf(p) == [j \in 1..Len(p.lessons) |-> p.lessons[j].completed]

\* The step answers a complete-lesson request for a lesson of path i that
\* the store already held as completed.
Recompletes(i) ==
  /\ resp'.op = "completeLesson"
  /\ resp'.status = 200
  /\ resp'.body.id = i
  /\ FindLesson(paths[i].lessons, resp'.arg.lessonId) # 0
  /\ paths[i].lessons[FindLesson(paths[i].lessons, resp'.arg.lessonId)].completed

\* What C11 says of one step, for the stored path i
MonotoneStep(i) ==
  /\ LessonIdsOf(paths'[i]) = LessonIdsOf(paths[i])
  /\ \A j \in 1..Len(paths[i].lessons) :
       paths[i].lessons[j].completed => paths'[i].lessons[j].completed
  /\ RatLeq(paths[i].progress, paths'[i].progress)
  /\ Recompletes(i) =>
       /\ FlagsOf(paths'[i]) = FlagsOf(paths[i])
       /\ RatEq(paths'[i].progress, paths[i].progress)

\* C11: in every step a stored path keeps its lessons (ids, count), no
\* completed flag goes from true to false, progress does not decrease, and
\* answering a complete-lesson request for an already completed lesson
\* leaves the flags and progress unchanged.
C11_CompletionMonotone ==
  [][Len(paths') >= Len(paths) /\ \A i \in 1..Len(paths) : MonotoneStep(i)]_vars
====
